---- MODULE Spec2Model ----
(***************************************************************************)
(* A model of sift/workspace/importer.py: the importer variants            *)
(* (GeoTiffImporter, GoesRPUGImporter), their relevance predicates, their  *)
(* metadata extractors, the guidebook enrichment step and the generator    *)
(* based streaming import.                                                 *)
(*                                                                         *)
(* Text is modelled as a sequence of one-character strings, a metadata     *)
(* dictionary as a function from key names to values (a value is a         *)
(* sequence of strings, the empty sequence standing for "key not in the    *)
(* dictionary"), a float completion value as the exact fraction num/den.   *)
(***************************************************************************)
EXTENDS Integers, Sequences, FiniteSets, TLC

VARIABLES
    entry,          \* which operation is invoked: "call", "get_metadata", "select", "enrich"
    variant,        \* "GeoTIFF" or "PUG": the importer instance the operation is invoked on
    source_path,    \* the source_path argument (text, or None)
    source_uri,     \* the source_uri argument (text, or None)
    file,           \* what the external decoder reports for the source file
    gb,             \* the guidebook instance GUIDEBOOKS[platform]() gives
    pc,             \* position of the invoked operation / generator
    err,            \* the exception the operation ended with, "none" when it did not
    decoderOpened,  \* gdal.Open / PugL1bTools has been given the source
    cacheFile,      \* the file at cache_path: "absent", "empty" (zero bytes) or "sized"
    rows, cols,     \* band.YSize, band.XSize (pug.shape) as read by the streaming call
    blockh,         \* the block height band.GetBlockSize() reported to GeoTiffImporter.__call__
    increment,      \* rows per chunk, as computed by GeoTiffImporter.__call__
    irow,           \* the loop variable of GeoTiffImporter.__call__
    events,         \* the import_progress tuples yielded so far, in order
    writes,         \* the row ranges <<first row, row count>> assigned into img_data, in order
    md,             \* the dictionary get_metadata returned (NoRecord when it raised)
    hist,           \* the dictionaries after 0, 1, 2.. applications of generate_guidebook_metadata
    selected        \* the variant selection returned, "none" when it returned none

vars == <<entry, variant, source_path, source_uri, file, gb, pc, err, decoderOpened,
          cacheFile, rows, cols, blockh, increment, irow, events, writes, md, hist, selected>>

----------------------------------------------------------------------------
(* Bounds of the model *)

MaxRows == 2200
MaxCols == 1
MaxBlockH == 2100
MaxPugDim == 3
MaxSrcLen == 5
MaxProjTokens == 3
MaxEnrich == 2

(* Program constants *)

IDEAL_INCREMENT == 512
MAX_INCREMENT == 2048

----------------------------------------------------------------------------
(* Text *)

None == <<"None">>

Min(a, b) == IF a <= b THEN a ELSE b

CeilDiv(a, b) == (a + b - 1) \div b

\* str.lower() on one character
LowerChar(c) ==
    CASE c = "T" -> "t"
      [] c = "N" -> "n"
      [] OTHER -> c

\* str.lower()
Lower(s) == [i \in 1..Len(s) |-> LowerChar(s[i])]

\* str.endswith(suffix)
EndsWith(s, suffix) ==
    /\ Len(suffix) <= Len(s)
    /\ SubSeq(s, Len(s) - Len(suffix) + 1, Len(s)) = suffix

\* `needle in s` for str: substring containment
Contains(s, needle) ==
    \E i \in 1..(Len(s) - Len(needle) + 1) : SubSeq(s, i, i + Len(needle) - 1) = needle

\* str.strip(): leading and trailing blanks removed
RECURSIVE Strip(_)
Strip(s) ==
    IF s = <<>> THEN s
    ELSE IF Head(s) = " " THEN Strip(Tail(s))
    ELSE IF s[Len(s)] = " " THEN Strip(SubSeq(s, 1, Len(s) - 1))
    ELSE s

\* Python truthiness of an optional str: None and '' are false
Truthy(s) == s # None /\ s # <<>>

\* `a or b`
PyOr(a, b) == IF Truthy(a) THEN a ELSE b

Suffix_tif == <<".", "t", "i", "f">>
Suffix_tiff == <<".", "t", "i", "f", "f">>
Suffix_nc == <<".", "n", "c">>
Suffix_nc4 == <<".", "n", "c", "4">>

----------------------------------------------------------------------------
(* Relevance predicates and selection *)

\* the exception is_relevant ends with: None.lower() is an AttributeError
is_relevant_raises(path, uri) == PyOr(path, uri) = None

GeoTiff_is_relevant(path, uri) ==
    LET source == PyOr(path, uri) IN
    EndsWith(Lower(source), Suffix_tif) \/ EndsWith(Lower(source), Suffix_tiff)

GoesRPUG_is_relevant(path, uri) ==
    LET source == PyOr(path, uri) IN
    EndsWith(Lower(source), Suffix_nc) \/ EndsWith(Lower(source), Suffix_nc4)

\* the variants in their fixed priority order
Variants == <<"GeoTIFF", "PUG">>

is_relevant(v, path, uri) ==
    IF v = "GeoTIFF" THEN GeoTiff_is_relevant(path, uri) ELSE GoesRPUG_is_relevant(path, uri)

\* select(source): the first relevant variant in priority order, else NoApplicableImporter;
\* an exception of a relevance predicate propagates
select(path, uri) ==
    IF is_relevant_raises(path, uri) THEN [variant |-> "none", err |-> "AttributeError"]
    ELSE IF \E i \in 1..Len(Variants) : is_relevant(Variants[i], path, uri)
         THEN LET i == CHOOSE j \in 1..Len(Variants) :
                          /\ is_relevant(Variants[j], path, uri)
                          /\ \A k \in 1..(j - 1) : ~is_relevant(Variants[k], path, uri)
              IN [variant |-> Variants[i], err |-> "none"]
         ELSE [variant |-> "none", err |-> "NoApplicableImporter"]

----------------------------------------------------------------------------
(* Progress events and the streaming import *)

import_progress(stage, num, den, desc, info, data) ==
    [stages |-> 1, current_stage |-> stage, completion |-> [num |-> num, den |-> den],
     stage_desc |-> desc, dataset_info |-> info, data |-> data]

\* an increment without the cap
Increment_uncapped(bh) == bh * CeilDiv(IDEAL_INCREMENT, bh)

\* increment = min(blockh * int(np.ceil(IDEAL_INCREMENT/blockh)), 2048)
Increment(bh) == Min(bh * CeilDiv(IDEAL_INCREMENT, bh), MAX_INCREMENT)

\* a chunk size that is not cut at the last row
ChunkRows_uncut(inc, rws, ir) == inc

\* nrows = min(increment, rows-irow)
ChunkRows(inc, rws, ir) == Min(inc, rws - ir)

\* the event yielded inside the while loop, after irow += increment
status(ir, rws) == import_progress(0, ir, rws, "importing geotiff", "None", "img_data")

\* a terminal event that carries no buffer handle
zult_without_data == import_progress(0, 1, 1, "done loading geotiff", "None", "None")

\* the event yielded after the loop
zult == import_progress(0, 1, 1, "done loading geotiff", "None", "img_data")

\* the single event GoesRPUGImporter.__call__ yields
pug_event == import_progress(0, 1, 1, "GOES PUG data add to workspace", "None", "img_data")

\* block heights the decoder may report (band.GetBlockSize()[1])
BlockHeights == {1, 3, 200, 512, 1000, MaxBlockH}

Fail(e) ==
    /\ pc' = "failed"
    /\ err' = e

\* GeoTiffImporter.__call__ from the `while` test to the next yield
LoopStep(rws, inc, ir) ==
    IF ir < rws
    THEN LET nrows == ChunkRows(inc, rws, ir) IN
         /\ writes' = Append(writes, <<ir, nrows>>)
         /\ irow' = ir + inc
         /\ events' = Append(events, status(ir + inc, rws))
         /\ pc' = "loop"
    ELSE /\ events' = Append(events, zult)
         /\ pc' = "final"
         /\ UNCHANGED writes
         /\ irow' = ir

\* GeoTiffImporter.__call__ from its first line to the first yield
GeoTiffStart(r, c, bh, openOK, mmOK) ==
    IF source_uri # None
    THEN /\ Fail("NotImplementedError")
         /\ UNCHANGED <<decoderOpened, cacheFile, rows, cols, blockh, increment, irow, events, writes>>
    ELSE IF source_path = None
    THEN \* gdal.Open(None): the decoder gives no dataset
         /\ Fail("DecodeError")
         /\ UNCHANGED <<decoderOpened, cacheFile, rows, cols, blockh, increment, irow, events, writes>>
    ELSE /\ decoderOpened' = TRUE
         /\ rows' = r
         /\ cols' = c
         /\ blockh' = bh
         /\ IF ~openOK
            THEN \* open(cache_path, 'wb+') raises
                 /\ Fail("OSError")
                 /\ UNCHANGED <<cacheFile, increment, irow, events, writes>>
            ELSE IF (r = 0 \/ c = 0) /\ ~mmOK
            THEN \* np.memmap of a zero-sized shape raises; the file open() made stays
                 /\ Fail("ValueError")
                 /\ cacheFile' = "empty"
                 /\ UNCHANGED <<increment, irow, events, writes>>
            ELSE /\ cacheFile' = IF r = 0 \/ c = 0 THEN "empty" ELSE "sized"
                 /\ increment' = Increment(bh)
                 /\ err' = "none"
                 /\ LoopStep(r, Increment(bh), 0)

\* one resumption of the generator GeoTiffImporter.__call__ returns
GeoTiffCall ==
    /\ entry = "call"
    /\ variant = "GeoTIFF"
    /\ pc \in {"idle", "loop", "final"}
    /\ IF pc = "idle"
       THEN \E r \in 0..MaxRows, c \in 0..MaxCols, bh \in BlockHeights,
               openOK \in BOOLEAN, mmOK \in BOOLEAN :
                GeoTiffStart(r, c, bh, openOK, mmOK)
       ELSE IF pc = "loop"
       THEN /\ LoopStep(rows, increment, irow)
            /\ UNCHANGED <<err, decoderOpened, cacheFile, rows, cols, blockh, increment>>
       ELSE \* resumed after the last yield: the generator returns
            /\ pc' = "done"
            /\ UNCHANGED <<err, decoderOpened, cacheFile, rows, cols, blockh, increment, irow,
                           events, writes>>
    /\ UNCHANGED <<entry, variant, source_path, source_uri, file, gb, md, hist, selected>>

\* one resumption of the generator GoesRPUGImporter.__call__ returns
PugCall ==
    /\ entry = "call"
    /\ variant = "PUG"
    /\ pc \in {"idle", "final"}
    /\ IF pc = "idle"
       THEN \E r \in 0..MaxPugDim, c \in 0..MaxCols, openOK \in BOOLEAN, mmOK \in BOOLEAN :
              IF source_path = None
              THEN \* PugL1bTools(None): the decoder cannot open it
                   /\ Fail("DecodeError")
                   /\ UNCHANGED <<decoderOpened, cacheFile, rows, cols, blockh, events, writes>>
              ELSE /\ decoderOpened' = TRUE
                   /\ rows' = r
                   /\ cols' = c
                   /\ UNCHANGED blockh
                   /\ IF ~openOK
                      THEN /\ Fail("OSError")
                           /\ UNCHANGED <<cacheFile, events, writes>>
                      ELSE IF (r = 0 \/ c = 0) /\ ~mmOK
                      THEN /\ Fail("ValueError")
                           /\ cacheFile' = "empty"
                           /\ UNCHANGED <<events, writes>>
                      ELSE /\ cacheFile' = IF r = 0 \/ c = 0 THEN "empty" ELSE "sized"
                           /\ writes' = Append(writes, <<0, r>>)
                           /\ events' = Append(events, pug_event)
                           /\ pc' = "final"
                           /\ err' = "none"
       ELSE /\ pc' = "done"
            /\ UNCHANGED <<err, decoderOpened, cacheFile, rows, cols, blockh, events, writes>>
    /\ UNCHANGED <<entry, variant, source_path, source_uri, file, gb, increment, irow,
                   md, hist, selected>>

----------------------------------------------------------------------------
(* Metadata dictionaries *)

Keys == {"UUID", "KIND", "SHAPE", "ORIGIN_X", "ORIGIN_Y", "CELL_WIDTH", "CELL_HEIGHT",
         "PROJ", "DATASET_NAME", "PATHNAME", "PLATFORM", "BAND", "INSTRUMENT",
         "SCHED_TIME", "OBS_TIME", "SCENE", "COLORMAP", "CLIM", "DISPLAY_TIME",
         "DISPLAY_NAME", "GUIDEBOOK_INFO"}

\* {}
EmptyDict == [k \in Keys |-> <<>>]

NoRecord == EmptyDict

\* `k in d`
Has(d, k) == d[k] # <<>>

\* d[k] = v
Set(d, k, v) == [d EXCEPT ![k] = v]

\* d.update(e)
Update(d, e) == [k \in Keys |-> IF e[k] # <<>> THEN e[k] ELSE d[k]]

----------------------------------------------------------------------------
(* Enrichment *)

\* the keys of GUIDEBOOKS
GUIDEBOOKS == {<<"GOES_16">>, <<"GOES_17">>, <<"HIMAWARI_8">>, <<"HIMAWARI_9">>}

\* A guidebook is an external collaborator.  Each of its functions is a deterministic
\* function of the dictionary it is handed; g names the key each one reads and the
\* keys collect_info returns.
collect_info(g, d) ==
    [k \in Keys |-> IF k \in g.infoWrites THEN <<"info">> \o d[g.infoReads] ELSE <<>>]

default_colormap(g, d) == <<"colormap">> \o d[g.styleReads]

climits(g, d) == <<"clim">> \o d[g.styleReads]

default_display_time(g, d) == <<"time">> \o d[g.displayReads]

default_display_name(g, d) == <<"name">> \o d[g.displayReads]

\* get_guidebook_class: GUIDEBOOKS[layer_info.get(INFO.PLATFORM)] is a KeyError for a
\* platform that is absent or has no guidebook
get_guidebook_class_raises(d) == d["PLATFORM"] \notin GUIDEBOOKS

\* a display time that is set whether or not the dictionary has one
FillDisplayTime_always(g, d) == Set(d, "DISPLAY_TIME", default_display_time(g, d))

\* if INFO.DISPLAY_TIME not in layer_info: layer_info[INFO.DISPLAY_TIME] = ...
FillDisplayTime(g, d) ==
    IF Has(d, "DISPLAY_TIME") THEN d ELSE Set(d, "DISPLAY_TIME", default_display_time(g, d))

\* if INFO.DISPLAY_NAME not in layer_info: layer_info[INFO.DISPLAY_NAME] = ...
FillDisplayName(g, d) ==
    IF Has(d, "DISPLAY_NAME") THEN d ELSE Set(d, "DISPLAY_NAME", default_display_name(g, d))

generate_guidebook_metadata(g, d) ==
    IF get_guidebook_class_raises(d)
    THEN [err |-> "KeyError", d |-> NoRecord]
    ELSE LET d1 == Update(d, collect_info(g, d))
             d2 == Set(d1, "COLORMAP", default_colormap(g, d1))
             d3 == Set(d2, "CLIM", climits(g, d2))
             d4 == FillDisplayTime(g, d3)
             d5 == FillDisplayName(g, d4)
         IN [err |-> "none", d |-> d5]

\* generate_guidebook_metadata applied to the dictionary an earlier application returned
Enrich ==
    /\ entry = "enrich"
    /\ pc = "idle"
    /\ Len(hist) <= MaxEnrich
    /\ LET res == generate_guidebook_metadata(gb, hist[Len(hist)]) IN
         IF res.err # "none"
         THEN /\ Fail(res.err)
              /\ UNCHANGED hist
         ELSE /\ hist' = Append(hist, res.d)
              /\ UNCHANGED <<pc, err>>
    /\ UNCHANGED <<entry, variant, source_path, source_uri, file, gb, decoderOpened,
                   cacheFile, rows, cols, blockh, increment, irow, events, writes, md, selected>>

----------------------------------------------------------------------------
(* Metadata extraction *)

OverMarker == <<"+", "o", "v", "e", "r">>

\* a correction that does not look for the marker
FixOver_unchecked(proj, lonWrap) ==
    IF lonWrap THEN proj \o <<" ">> \o OverMarker ELSE proj

\* if "+over" not in d[INFO.PROJ] and lon_r < lon_l: d[INFO.PROJ] += " +over"
FixOver(proj, lonWrap) ==
    IF ~Contains(proj, OverMarker) /\ lonWrap THEN proj \o <<" ">> \o OverMarker ELSE proj

\* GeoTiffImporter._metadata_for_path; legacy is what the HS_H.. pattern matched in the
\* file name: "nomatch", or the two platform digits
metadata_for_path(path, legacy) ==
    IF ~Truthy(path) \/ legacy = "nomatch"
    THEN [err |-> "none", d |-> EmptyDict]
    ELSE IF legacy \notin {"08", "09"}
    THEN \* PLATFORM('Himawari-7'): no such member
         [err |-> "ValueError", d |-> NoRecord]
    ELSE [err |-> "none",
          d |-> [k \in Keys |->
                   CASE k = "PLATFORM" -> IF legacy = "08" THEN <<"HIMAWARI_8">>
                                                           ELSE <<"HIMAWARI_9">>
                     [] k = "BAND" -> <<"3">>
                     [] k = "INSTRUMENT" -> <<"AHI">>
                     [] k = "SCHED_TIME" -> <<"when">>
                     [] k = "OBS_TIME" -> <<"when">>
                     [] k = "SCENE" -> <<"FLDK">>
                     [] OTHER -> <<>>]]

\* GeoTiffImporter._check_geotiff_metadata on the tags the file embeds, for the tags
\* name, platform and instrument/sensor; a platform or instrument tag is given as the
\* enum member from_value makes of it (UNKNOWN is logged and kept)
check_geotiff_metadata(f) ==
    [k \in Keys |->
        CASE k = "DATASET_NAME" -> f.tagName
          [] k = "PLATFORM" -> f.tagPlatform
          [] k = "INSTRUMENT" -> f.tagInstrument
          [] OTHER -> <<>>]

GeoTiff_get_metadata(path, uri, f, g) ==
    IF uri # None
    THEN [err |-> "NotImplementedError", d |-> NoRecord, opened |-> FALSE]
    ELSE LET m == metadata_for_path(path, f.legacy) IN
    IF m.err # "none"
    THEN [err |-> m.err, d |-> NoRecord, opened |-> FALSE]
    ELSE IF path = None
    THEN \* gdal.Open(None): the decoder gives no dataset
         [err |-> "DecodeError", d |-> NoRecord, opened |-> FALSE]
    ELSE LET d0 == [k \in Keys |->
                      CASE k = "UUID" -> <<"dest_uuid">>
                        [] k = "KIND" -> <<"IMAGE">>
                        [] k = "ORIGIN_X" -> <<"ox">>
                        [] k = "ORIGIN_Y" -> <<"oy">>
                        [] k = "CELL_WIDTH" -> <<"cw">>
                        [] k = "CELL_HEIGHT" -> <<"ch">>
                        [] k = "PROJ" -> Strip(f.proj4)
                        [] k = "DATASET_NAME" ->
                              IF Has(m.d, "BAND") THEN <<"B", "0">> \o m.d["BAND"]
                                                  ELSE <<"basename">>
                        [] k = "PATHNAME" -> path
                        [] k = "SHAPE" -> <<"rows", "cols">>
                        [] OTHER -> m.d[k]]
             d1 == Set(d0, "PROJ", FixOver(d0["PROJ"], f.lonWrap))
             d2 == Update(d1, check_geotiff_metadata(f))
             res == generate_guidebook_metadata(g, d2)
         IN [err |-> res.err, d |-> res.d, opened |-> TRUE]

\* PLATFORM_ID_TO_PLATFORM
PLATFORM_ID_TO_PLATFORM(id) ==
    CASE id = "G16" -> <<"GOES_16">>
      [] id = "G17" -> <<"GOES_17">>
      [] id = "Himawari-8" -> <<"HIMAWARI_8">>
      [] id = "Himawari-9" -> <<"HIMAWARI_9">>
      [] OTHER -> <<>>

\* x[0] and x[midxi+1] - x[midxi] with midxi = int(n / 2) index past the end of a
\* coordinate vector of n < 3 samples
CoordIndexError(n) == n = 0 \/ (n \div 2) + 1 >= n

GoesRPUG_get_metadata(path, uri, f, g) ==
    IF uri # None
    THEN [err |-> "NotImplementedError", d |-> NoRecord, opened |-> FALSE]
    ELSE IF path = None
    THEN \* PugL1bTools(None): the decoder cannot open it
         [err |-> "DecodeError", d |-> NoRecord, opened |-> FALSE]
    ELSE IF PLATFORM_ID_TO_PLATFORM(f.pugPlatformId) = <<>>
    THEN [err |-> "KeyError", d |-> NoRecord, opened |-> TRUE]
    ELSE IF CoordIndexError(f.pugCols) \/ CoordIndexError(f.pugRows)
    THEN [err |-> "IndexError", d |-> NoRecord, opened |-> TRUE]
    ELSE LET d0 == [k \in Keys |->
                      CASE k = "PLATFORM" -> PLATFORM_ID_TO_PLATFORM(f.pugPlatformId)
                        [] k = "BAND" -> <<"abi.band">>
                        [] k = "INSTRUMENT" -> <<"ABI">>
                        [] k = "SCHED_TIME" -> <<"abi.sched_time">>
                        [] k = "DISPLAY_TIME" -> <<"abi.display_time">>
                        [] k = "SCENE" -> <<"abi.scene_id">>
                        [] k = "DISPLAY_NAME" -> <<"abi.display_name">>
                        [] k = "UUID" -> <<"dest_uuid">>
                        [] k = "DATASET_NAME" -> <<"basename">>
                        [] k = "PATHNAME" -> path
                        [] k = "KIND" -> <<"IMAGE">>
                        [] k = "PROJ" -> f.proj4
                        [] k = "ORIGIN_X" -> <<"x[0]">>
                        [] k = "ORIGIN_Y" -> <<"y[0]">>
                        [] k = "CELL_WIDTH" -> <<"dx">>
                        [] k = "CELL_HEIGHT" -> <<"dy">>
                        [] k = "SHAPE" -> <<"rows", "cols">>
                        [] OTHER -> <<>>]
             res == generate_guidebook_metadata(g, d0)
         IN [err |-> res.err, d |-> res.d, opened |-> TRUE]

Returned(res) ==
    /\ pc' = IF res.err = "none" THEN "done" ELSE "failed"
    /\ err' = res.err
    /\ md' = res.d
    /\ decoderOpened' = res.opened

GeoTiffGetMetadata ==
    /\ entry = "get_metadata"
    /\ variant = "GeoTIFF"
    /\ pc = "idle"
    /\ Returned(GeoTiff_get_metadata(source_path, source_uri, file, gb))
    /\ UNCHANGED <<entry, variant, source_path, source_uri, file, gb, cacheFile, rows, cols, blockh,
                   increment, irow, events, writes, hist, selected>>

PugGetMetadata ==
    /\ entry = "get_metadata"
    /\ variant = "PUG"
    /\ pc = "idle"
    /\ Returned(GoesRPUG_get_metadata(source_path, source_uri, file, gb))
    /\ UNCHANGED <<entry, variant, source_path, source_uri, file, gb, cacheFile, rows, cols, blockh,
                   increment, irow, events, writes, hist, selected>>

----------------------------------------------------------------------------
(* Selection *)

Select ==
    /\ entry = "select"
    /\ pc = "idle"
    /\ LET res == select(source_path, source_uri) IN
         /\ selected' = res.variant
         /\ err' = res.err
         /\ pc' = IF res.err = "none" THEN "done" ELSE "failed"
    /\ UNCHANGED <<entry, variant, source_path, source_uri, file, gb, decoderOpened,
                   cacheFile, rows, cols, blockh, increment, irow, events, writes, md, hist>>

----------------------------------------------------------------------------
(* Initial states *)

SomePath == <<"a", ".", "t", "i", "f">>
SomeUri == <<"u", ":", "a">>

NoFile == [kind |-> "none"]
NoGuidebook == [kind |-> "none"]

\* nothing has run yet
Idle ==
    /\ pc = "idle"
    /\ err = "none"
    /\ decoderOpened = FALSE
    /\ cacheFile = "absent"
    /\ rows = 0
    /\ cols = 0
    /\ blockh = 0
    /\ increment = 0
    /\ irow = 0
    /\ events = <<>>
    /\ writes = <<>>
    /\ md = NoRecord
    /\ selected = "none"

(* The streaming import, GeoTiffImporter.__call__ and GoesRPUGImporter.__call__ *)

InitStream ==
    /\ entry = "call"
    /\ variant \in {"GeoTIFF", "PUG"}
    /\ source_path \in {None, SomePath}
    /\ source_uri \in {None, SomeUri}
    /\ file = NoFile
    /\ gb = NoGuidebook
    /\ hist = <<>>
    /\ Idle

NextStream == GeoTiffCall \/ PugCall

SpecStream == InitStream /\ [][NextStream]_vars

(* Metadata extraction, get_metadata of both variants *)

ProjTokens == {OverMarker, <<"+", "o", "v", "e">>, <<"+", "a">>, OverMarker \o <<"x">>}

TokenSeqs == UNION {[1..n -> ProjTokens] : n \in 0..MaxProjTokens}

RECURSIVE JoinTokens(_)
\* ' '.join(ts)
JoinTokens(ts) ==
    IF ts = <<>> THEN <<>>
    ELSE IF Len(ts) = 1 THEN ts[1]
    ELSE ts[1] \o <<" ">> \o JoinTokens(Tail(ts))

\* what srs.ExportToProj4() may return: parameters separated by blanks, with or
\* without a trailing blank
Proj4Outputs == {JoinTokens(ts) \o pad : ts \in TokenSeqs, pad \in {<<>>, <<" ">>}}

PlainProj == <<"+", "a", " ">>

PlatformMembers == GUIDEBOOKS \cup {<<"UNKNOWN">>}

GeoTiffFiles ==
    {[legacy |-> "nomatch", tagName |-> <<>>, tagPlatform |-> <<"GOES_16">>,
      tagInstrument |-> <<>>, proj4 |-> p, lonWrap |-> w,
      pugPlatformId |-> "G16", pugRows |-> 0, pugCols |-> 0] :
        p \in Proj4Outputs, w \in BOOLEAN}
    \cup
    {[legacy |-> l, tagName |-> tn, tagPlatform |-> tp,
      tagInstrument |-> ti, proj4 |-> PlainProj, lonWrap |-> w,
      pugPlatformId |-> "G16", pugRows |-> 0, pugCols |-> 0] :
        l \in {"nomatch", "07", "08", "09"}, tn \in {<<>>, <<"name">>},
        tp \in PlatformMembers \cup {<<>>}, ti \in {<<>>, <<"UNKNOWN">>},
        w \in BOOLEAN}

PugFiles ==
    {[legacy |-> "nomatch", tagName |-> <<>>, tagPlatform |-> <<>>,
      tagInstrument |-> <<>>, proj4 |-> PlainProj, lonWrap |-> FALSE,
      pugPlatformId |-> id, pugRows |-> r, pugCols |-> c] :
        id \in {"G16", "G17", "Himawari-8", "Himawari-9", "other"},
        r \in 0..MaxPugDim, c \in 0..MaxPugDim}

ReadKeys == {"PLATFORM", "BAND", "COLORMAP", "DISPLAY_NAME", "GUIDEBOOK_INFO"}

Guidebooks ==
    [infoReads : ReadKeys,
     infoWrites : {{"GUIDEBOOK_INFO"}, {"GUIDEBOOK_INFO", "DISPLAY_NAME"}},
     styleReads : ReadKeys,
     displayReads : ReadKeys]

\* a guidebook that reads the band only
BandGuidebook ==
    [infoReads |-> "BAND", infoWrites |-> {"GUIDEBOOK_INFO"}, styleReads |-> "BAND",
     displayReads |-> "BAND"]

InitMeta ==
    /\ entry = "get_metadata"
    /\ variant \in {"GeoTIFF", "PUG"}
    /\ source_path \in {None, SomePath}
    /\ source_uri \in {None, SomeUri}
    /\ file \in IF variant = "GeoTIFF" THEN GeoTiffFiles ELSE PugFiles
    /\ gb = BandGuidebook
    /\ hist = <<>>
    /\ Idle

NextMeta == GeoTiffGetMetadata \/ PugGetMetadata

SpecMeta == InitMeta /\ [][NextMeta]_vars

(* Enrichment applied repeatedly, generate_guidebook_metadata *)

PartialRecords ==
    {[k \in Keys |->
        CASE k = "PLATFORM" -> pl
          [] k = "BAND" -> bd
          [] k = "DISPLAY_TIME" -> dt
          [] k = "DISPLAY_NAME" -> dn
          [] k = "COLORMAP" -> cm
          [] k = "KIND" -> <<"IMAGE">>
          [] OTHER -> <<>>] :
        pl \in {<<>>, <<"GOES_16">>, <<"UNKNOWN">>}, bd \in {<<>>, <<"3">>},
        dt \in {<<>>, <<"t0">>}, dn \in {<<>>, <<"n0">>}, cm \in {<<>>, <<"c0">>}}

InitEnrich ==
    /\ entry = "enrich"
    /\ variant = "GeoTIFF"
    /\ source_path = None
    /\ source_uri = None
    /\ file = NoFile
    /\ gb \in Guidebooks
    /\ hist \in {<<r>> : r \in PartialRecords}
    /\ Idle

NextEnrich == Enrich

SpecEnrich == InitEnrich /\ [][NextEnrich]_vars

(* Selection of a variant for a source *)

Alphabet == {".", "t", "i", "f", "n", "c", "4", "T", "N"}

Texts == UNION {[1..n -> Alphabet] : n \in 0..MaxSrcLen}

SampleSources == {<<>>, SomeUri, Suffix_tif, <<"a", ".", "N", "c", "4">>}

InitSelect ==
    /\ entry = "select"
    /\ variant = "GeoTIFF"
    /\ \/ source_path \in Texts \cup {None} /\ source_uri = None
       \/ source_path \in SampleSources \cup {None} /\ source_uri \in SampleSources
    /\ file = NoFile
    /\ gb = NoGuidebook
    /\ hist = <<>>
    /\ Idle

NextSelect == Select

SpecSelect == InitSelect /\ [][NextSelect]_vars

----------------------------------------------------------------------------
(* Properties of the streaming import *)

\* a <= b for completion fractions (denominators are positive)
FracLeq(a, b) == a.num * b.den <= b.num * a.den

Finished == pc \in {"final", "done"}

RECURSIVE RowsWritten(_, _)
\* the rows the first k assignments into img_data wrote
RowsWritten(w, k) == IF k = 0 THEN 0 ELSE RowsWritten(w, k - 1) + w[k][2]

IsIncrementEvent(e) == e.stage_desc = "importing geotiff"

\* C1 (as claimed): the completion values of the emitted events, in emission order,
\* never decrease and the last one of a finished import is exactly 1.0; current_stage
\* never decreases either.
C1_CompletionMonotoneEndsAtOne ==
    entry = "call" =>
        /\ \A i, j \in 1..Len(events) :
              i < j => /\ FracLeq(events[i].completion, events[j].completion)
                       /\ events[i].current_stage <= events[j].current_stage
        /\ (Finished /\ events # <<>>) =>
              events[Len(events)].completion.num = events[Len(events)].completion.den

C3_RowsWrittenExactlyOnce ==
    (entry = "call" /\ variant = "GeoTIFF") =>
        /\ \A k \in 1..Len(writes) :
              /\ writes[k][1] = RowsWritten(writes, k - 1)
              /\ writes[k][2] >= 1
              /\ writes[k][1] + writes[k][2] <= rows
        /\ Finished =>
              /\ RowsWritten(writes, Len(writes)) = rows
              /\ Len(writes) = Cardinality({i \in 1..Len(events) : IsIncrementEvent(events[i])})

C3_Witness ==
    /\ entry = "call" /\ variant = "GeoTIFF" /\ pc = "done"
    /\ Len(writes) >= 3
    /\ rows % increment # 0
    /\ writes[Len(writes)][2] < increment

\* C7 (as claimed): with source_uri given, an entry point of either variant ends with
\* the unsupported-source error, with the decoder never opened and no cache file made.
C7_UriRejectedEverywhere ==
    (entry \in {"call", "get_metadata"} /\ source_uri # None /\ pc # "idle") =>
        /\ err = "NotImplementedError"
        /\ ~decoderOpened
        /\ cacheFile = "absent"

\* the failures of open() and np.memmap, which stand for CacheAllocationError
IsCacheAllocationError(e) == e \in {"OSError", "ValueError"}

\* C8 (as claimed): a stream import of a raster with 0 rows or 0 columns fails with the
\* cache allocation error, emits no event and leaves no file at cache_path.
C8_EmptyShapeFailsCleanly ==
    (entry = "call" /\ decoderOpened /\ (rows = 0 \/ cols = 0)) =>
        /\ IsCacheAllocationError(err)
        /\ events = <<>>
        /\ cacheFile = "absent"

\* C9 (as claimed): every increment event of a GeoTIFF import reports completion equal
\* to (rows written so far) / (total rows), and every event's completion is in 0..1.
C9_CompletionIsRowsWrittenOverTotal ==
    (entry = "call" /\ variant = "GeoTIFF") =>
        \A i \in 1..Len(events) :
            /\ 0 <= events[i].completion.num
            /\ events[i].completion.num <= events[i].completion.den
            /\ IsIncrementEvent(events[i]) =>
                  events[i].completion.num * rows
                      = RowsWritten(writes, i) * events[i].completion.den

----------------------------------------------------------------------------
(* Properties of metadata extraction *)

RequiredKeys == {"UUID", "KIND", "SHAPE", "ORIGIN_X", "ORIGIN_Y", "CELL_WIDTH",
                 "CELL_HEIGHT", "PROJ", "DISPLAY_NAME", "DISPLAY_TIME"}

\* C4 (as claimed): GeoTIFF get_metadata of a source whose file name does not match the
\* legacy pattern and whose tags give no platform, or the UNKNOWN platform, does not
\* fail and returns a dictionary holding every required key.
C4_MissingPlatformTolerated ==
    (/\ entry = "get_metadata" /\ variant = "GeoTIFF" /\ pc # "idle"
     /\ source_uri = None /\ source_path # None
     /\ file.legacy = "nomatch"
     /\ file.tagPlatform \in {<<>>, <<"UNKNOWN">>}) =>
        /\ err = "none"
        /\ \A k \in RequiredKeys : Has(md, k)

\* the occurrences of "+over" in a projection string
CountOver(s) ==
    Cardinality({i \in 1..(Len(s) - Len(OverMarker) + 1) :
                    SubSeq(s, i, i + Len(OverMarker) - 1) = OverMarker})

\* C10: GeoTIFF get_metadata appends " +over" to the stripped projection string exactly
\* when the right edge longitude is less than the left edge one and the string has no
\* "+over", and the result then holds the marker once; otherwise it leaves the string
\* as it is; a string with at most one marker never comes out with two, and the
\* correction applied to its own result changes nothing.
C10_OverAppendedOnce ==
    (entry = "get_metadata" /\ variant = "GeoTIFF" /\ pc = "done") =>
        LET in == Strip(file.proj4)
            out == md["PROJ"]
        IN /\ (file.lonWrap /\ CountOver(in) = 0) =>
                  (out = in \o <<" ">> \o OverMarker /\ CountOver(out) = 1)
           /\ (~file.lonWrap \/ CountOver(in) > 0) => out = in
           /\ CountOver(in) <= 1 => CountOver(out) <= 1
           /\ FixOver(out, file.lonWrap) = out

C10_Witness ==
    /\ entry = "get_metadata" /\ variant = "GeoTIFF" /\ pc = "done"
    /\ file.lonWrap
    /\ Len(Strip(file.proj4)) > 0
    /\ CountOver(Strip(file.proj4)) = 0
    /\ CountOver(md["PROJ"]) = 1

----------------------------------------------------------------------------
(* Properties of selection *)

\* the text s ends with the suffix, letter case aside
EndsWithAnyCase(s, suffix) ==
    /\ s # None
    /\ Len(s) >= Len(suffix)
    /\ \A i \in 1..Len(suffix) : LowerChar(s[Len(s) - Len(suffix) + i]) = suffix[i]

\* C5 (as claimed): selection returns the GeoTIFF variant for a source ending in .tif or
\* .tiff, the PUG variant for one ending in .nc or .nc4, letter case aside, and for any
\* other source, one with neither a path nor a URI included, it ends in
\* NoApplicableImporter and in no other failure; no source is relevant to two variants.
C5_SelectionBySuffix ==
    (entry = "select" /\ pc # "idle") =>
        LET source == PyOr(source_path, source_uri)
            tif == EndsWithAnyCase(source, Suffix_tif) \/ EndsWithAnyCase(source, Suffix_tiff)
            nc == EndsWithAnyCase(source, Suffix_nc) \/ EndsWithAnyCase(source, Suffix_nc4)
        IN /\ ~(tif /\ nc)
           /\ tif => (selected = "GeoTIFF" /\ err = "none")
           /\ nc => (selected = "PUG" /\ err = "none")
           /\ (~tif /\ ~nc) => (selected = "none" /\ err = "NoApplicableImporter")

----------------------------------------------------------------------------
(* Properties of enrichment *)

DisplayKeys == {"DISPLAY_TIME", "DISPLAY_NAME"}

\* C6 (as claimed): for a dictionary whose platform has a guidebook, a second enrichment
\* changes nothing the first one returned, and a display time or display name the
\* dictionary holds is never replaced.
C6_EnrichIdempotent ==
    entry = "enrich" =>
        /\ \A i \in 3..Len(hist) : hist[i] = hist[i - 1]
        /\ \A i \in 2..Len(hist) : \A k \in DisplayKeys :
              Has(hist[i - 1], k) => hist[i][k] = hist[i - 1][k]

\* the keys generate_guidebook_metadata writes with guidebook g
WrittenKeys(g) == {"COLORMAP", "CLIM", "DISPLAY_TIME", "DISPLAY_NAME"} \cup g.infoWrites

\* the functions of guidebook g read no key that enrichment writes
ReadsOnlyInputs(g) == {g.infoReads, g.styleReads, g.displayReads} \cap WrittenKeys(g) = {}

\* C6 (amended): when the guidebook's functions read only keys that enrichment does not
\* itself write, a further enrichment changes nothing an earlier one returned; and with
\* any guidebook, a display time or display name the dictionary holds is never
\* replaced unless collect_info itself returns that key.
C6_EnrichIdempotentOnInputs ==
    entry = "enrich" =>
        /\ ReadsOnlyInputs(gb) => \A i \in 3..Len(hist) : hist[i] = hist[i - 1]
        /\ \A i \in 2..Len(hist) : \A k \in DisplayKeys \ gb.infoWrites :
              Has(hist[i - 1], k) => hist[i][k] = hist[i - 1][k]

C6_Witness ==
    /\ entry = "enrich"
    /\ Len(hist) >= 3
    /\ ReadsOnlyInputs(gb)
    /\ hist[1]["DISPLAY_NAME"] = <<"n0">>
    /\ ~Has(hist[1], "DISPLAY_TIME")
    /\ hist[2] # hist[1]
    /\ hist[3] = hist[2]
    /\ hist[3]["DISPLAY_NAME"] = <<"n0">>

----------------------------------------------------------------------------
(* Properties of the increment and of the length of the event sequence *)

\* the buffer was allocated: the generator has reached its loop
Allocated == pc \in {"loop", "final", "done"}

IncrementEvents == {i \in 1..Len(events) : IsIncrementEvent(events[i])}

\* n = ceil(r / inc)
IsCeilOf(n, r, inc) == (n = 0 /\ r = 0) \/ (n >= 1 /\ (n - 1) * inc < r /\ r <= n * inc)

\* the increment, the chunks and the shape of the event sequence, as C11 states them
BoundedIncrements ==
    /\ 1 <= increment /\ increment <= MAX_INCREMENT
    /\ IF (MAX_INCREMENT \div blockh) * blockh >= IDEAL_INCREMENT
       THEN \* a multiple of the block height lies in 512..2048: the least one is taken
            /\ increment % blockh = 0
            /\ increment >= IDEAL_INCREMENT
            /\ increment - blockh < IDEAL_INCREMENT
       ELSE increment = MAX_INCREMENT
    /\ \A k \in 1..Len(writes) : 1 <= writes[k][2] /\ writes[k][2] <= increment
    /\ \A i \in 1..(Len(events) - 1) : IsIncrementEvent(events[i])
    /\ pc = "loop" =>
          /\ IsIncrementEvent(events[Len(events)])
          /\ irow = Len(events) * increment
          /\ (Len(events) - 1) * increment < rows
    /\ Finished =>
          /\ ~IsIncrementEvent(events[Len(events)])
          /\ IsCeilOf(Cardinality(IncrementEvents), rows, increment)
          /\ Len(events) = Cardinality(IncrementEvents) + 1

\* the generator can be resumed until it has returned, and not after
EndsAfterTerminalEvent ==
    /\ pc \in {"loop", "final"} => ENABLED GeoTiffCall
    /\ pc \in {"done", "failed"} => ~ENABLED GeoTiffCall

\* C11 (as claimed): for any rows >= 0 and any block height >= 1, a GeoTIFF stream
\* import of a source it can open into a cache file it can open has an increment in
\* 1..2048 (the least multiple of the block height that is >= 512 when that is <= 2048),
\* reads chunks of 1..increment rows, and emits ceil(rows / increment) increment events,
\* then one terminal event, then ends.
C11_BoundedEventSequence ==
    (/\ entry = "call" /\ variant = "GeoTIFF" /\ decoderOpened
     /\ cols >= 1 /\ err # "OSError") =>
        /\ Allocated
        /\ BoundedIncrements
        /\ EndsAfterTerminalEvent

\* C11 (amended): the same for any rows >= 1; for rows = 0 it holds when np.memmap
\* accepts the zero-sized shape, and otherwise the generator raises with no event.
C11_BoundedEventSequenceOnceAllocated ==
    (/\ entry = "call" /\ variant = "GeoTIFF" /\ decoderOpened
     /\ cols >= 1 /\ err # "OSError") =>
        /\ rows >= 1 => Allocated
        /\ Allocated => BoundedIncrements
        /\ ~Allocated => (pc = "failed" /\ events = <<>>)
        /\ EndsAfterTerminalEvent

C11_Witness ==
    /\ entry = "call" /\ variant = "GeoTIFF" /\ pc = "done"
    /\ blockh > MAX_INCREMENT
    /\ increment = MAX_INCREMENT
    /\ rows > increment
    /\ Cardinality(IncrementEvents) = 2
    /\ Len(events) = 3

====
